---- MODULE Spec2Model ----
(***************************************************************************)
(* Grad-CAM++ (src/core/grad_cam_plus_plus.py): the target layer selector, *)
(* the gradient extractor and the CAM composer, as run by explain().       *)
(*                                                                         *)
(* Tensors are records [shape, val]: shape is the tuple of dimensions and  *)
(* val maps every 0-based index tuple to the value stored there.  Values   *)
(* are integers; a quotient is kept exactly, as a reduced fraction <<n,d>>.*)
(* The literal layout (4, 8*8, 1280) the composer reshapes to is kept as   *)
(* four named dimensions, scaled down to (2, 2*2, 2) so that tensors can   *)
(* be enumerated; every dimension stays >= 2, as in the source.            *)
(***************************************************************************)
EXTENDS Integers, Sequences, FiniteSets, TLC

\* ---------------------------------------------------------------- bounds
MaxLayers == 3
MaxB == 4
MaxDim == 2
MaxIdx == 3
MaxC == 3
MaxSeed == 2
MaxRows == 2
MaxLabelClasses == 5

\* ------------------------------------------------------ program constants
\* tf.reshape(thirds[i], [4,64,1280]) and grey.reshape(4,8,8,1280), scaled
HardBatch == 2
HardH == 2
HardW == 2
HardNf == 2
\* num - (i*4) in explain
LabelStride == 4

\* Python's None; a layer's name is <<"layer", k>>, k its position in the model
None == <<>>
LayerName(k) == <<"layer", k>>
\* output_shape of a dense layer and of a layer with the literal layout
Dense == <<0, 2>>
HardConv == <<0, HardH, HardW, HardNf>>

\* ------------------------------------------------------------- fractions
Abs(x) == IF x < 0 THEN -x ELSE x

RECURSIVE GCD(_, _)
GCD(a, b) == IF b = 0 THEN a ELSE GCD(b, a % b)

\* the quotient n/d as a reduced fraction; a division by zero (inf or nan in
\* floating point) is kept as <<n, 0>>
Frac(n, d) ==
    IF d = 0 THEN <<n, 0>>
    ELSE LET g == GCD(Abs(n), Abs(d))
             s == IF d < 0 THEN -1 ELSE 1
         IN  <<(s * n) \div g, (s * d) \div g>>

FAdd(p, q) == Frac(p[1] * q[2] + q[1] * p[2], p[2] * q[2])
FMul(p, q) == Frac(p[1] * q[1], p[2] * q[2])

RECURSIVE FSum(_, _)
\* the sum of f[x] over x in S, f a function to fractions
FSum(f, S) ==
    IF S = {} THEN <<0, 1>>
    ELSE LET x == CHOOSE y \in S : TRUE IN FAdd(f[x], FSum(f, S \ {x}))

RECURSIVE ISum(_, _)
\* the sum of f[x] over x in S, f a function to integers
ISum(f, S) ==
    IF S = {} THEN 0
    ELSE LET x == CHOOSE y \in S : TRUE IN f[x] + ISum(f, S \ {x})

\* --------------------------------------------------------------- tensors
Cells(s) ==
    CASE Len(s) = 1 -> {<<a>> : a \in 0 .. s[1] - 1}
      [] Len(s) = 2 -> (0 .. s[1] - 1) \X (0 .. s[2] - 1)
      [] Len(s) = 3 -> (0 .. s[1] - 1) \X (0 .. s[2] - 1) \X (0 .. s[3] - 1)
      [] Len(s) = 4 -> (0 .. s[1] - 1) \X (0 .. s[2] - 1) \X (0 .. s[3] - 1)
                           \X (0 .. s[4] - 1)

RECURSIVE NumElements(_)
NumElements(s) == IF s = <<>> THEN 1 ELSE Head(s) * NumElements(Tail(s))

RECURSIVE FlatUpTo(_, _, _)
FlatUpTo(s, x, k) == IF k = 0 THEN 0 ELSE FlatUpTo(s, x, k - 1) * s[k] + x[k]

\* row-major position of index tuple x in a tensor of shape s
FlatIndex(s, x) == FlatUpTo(s, x, Len(s))

\* the index tuple of shape s at row-major position p
Unflatten(s, p) == CHOOSE x \in Cells(s) : FlatIndex(s, x) = p

\* numpy / TensorFlow broadcasting of two shapes of equal rank
\* faulty variant: a dimension is also stretched over a multiple of itself
BroadcastTiles(s, t) ==
    /\ Len(s) = Len(t)
    /\ \A k \in 1 .. Len(s) : s[k] % t[k] = 0 \/ t[k] % s[k] = 0

BroadcastOk(s, t) ==
    /\ Len(s) = Len(t)
    /\ \A k \in 1 .. Len(s) : s[k] = t[k] \/ s[k] = 1 \/ t[k] = 1

BroadcastShape(s, t) == [k \in 1 .. Len(s) |-> IF s[k] >= t[k] THEN s[k] ELSE t[k]]

\* the index read from an operand of shape s for index x of the result: a
\* dimension of 1 is read at 0, any other at x[k]
BroadcastIdx(s, x) == [k \in 1 .. Len(s) |-> x[k] % s[k]]

\* t[j] of a tensor: the slice along the first axis
Slice(t, j) ==
    LET s == Tail(t.shape)
    IN  [shape |-> s, val |-> [x \in Cells(s) |-> t.val[<<j>> \o x]]]

\* ------------------------------------------- the external model (opaque)
\* a value pattern in -2 .. 2
Pattern(x) == (x % 5) - 2

\* conv_outputs of the forward pass: a deterministic function of the model
\* (seed) and the batch
ForwardValue(seed, s, x) ==
    Pattern(seed + FlatIndex(s, x) * FlatIndex(s, x) + 3 * x[1] + 1)

\* the value of the order-th derivative of the score of class cls
DerivativeValue(seed, order, cls, s, x) ==
    Pattern(3 * seed + order * (cls + 2) + (order + 1) * FlatIndex(s, x) + 2 * x[Len(s)])

\* ------------------------------------------------------------------ state
VARIABLES
    call,               \* the arguments of explain (never changed)
    pc,                 \* position in explain and its callees
    err,                \* the exception raised, "none" when there is none
    class_index,        \* explain's class_index
    layer_name,         \* explain's layer_name
    tape,               \* the GradientTape: "none", "recording", "exited"
    tape_opens,         \* number of GradientTape contexts entered
    fwd_passes,         \* number of forward passes run
    queries,            \* the tape.gradient calls issued, in order
    i,                  \* loop index of get_gradients_and_filters
    conv_outputs,       \* target layer output of the forward pass
    grads, second_derivative, third_derivative, guided_grads,
    alphas,             \* generate_ponderated_output's alphas
    maps,               \* the CAMs returned by generate_ponderated_output
    heatmaps            \* explain's (cam, image) pairs

vars == <<call, pc, err, class_index, layer_name, tape, tape_opens, fwd_passes,
          queries, i, conv_outputs, grads, second_derivative, third_derivative,
          guided_grads, alphas, maps, heatmaps>>

extractor_vars == <<tape, tape_opens, fwd_passes, queries, i, conv_outputs, grads,
                    second_derivative, third_derivative, guided_grads>>

composer_vars == <<alphas, maps, heatmaps>>

\* ------------------------------------------------------------- the inputs
RECURSIVE SeqsUpTo(_, _)
\* all sequences over S of length 0 .. n
SeqsUpTo(S, n) ==
    IF n = 0 THEN {<<>>}
    ELSE LET R == SeqsUpTo(S, n - 1)
         IN  R \cup {Append(q, x) : q \in {r \in R : Len(r) = n - 1}, x \in S}

ConvShapes == {<<0, h, w, c>> : h \in 1 .. MaxDim, w \in 1 .. MaxDim, c \in 1 .. MaxDim}

\* model.layers built from a sequence of output shapes
Layers(shapes) ==
    [k \in 1 .. Len(shapes) |-> [name |-> LayerName(k), output_shape |-> shapes[k]]]

OneHot(c, n) == [k \in 1 .. n |-> IF k = c + 1 THEN 1 ELSE 0]

Model(shapes, seed, classes, rejects) ==
    [layers |-> Layers(shapes), seed |-> seed, classes |-> classes, rejects |-> rejects]

Call(model, images, labels, cls, mode, name) ==
    [model |-> model, images |-> images, labels |-> labels, class_index |-> cls,
     batch_mode |-> mode, layer_name |-> name]

\* architectures of every kind, layer_name given or not
SelectorCalls ==
    {Call(Model(shapes, 0, 2, FALSE), HardBatch, <<>>, <<0>>, FALSE, name) :
        shapes \in SeqsUpTo({Dense, HardConv, <<0, 1, 1, 1>>}, MaxLayers),
        name \in {None} \cup {LayerName(k) : k \in 1 .. MaxLayers}}

\* class index lists of every kind on the literal layout
ClassCalls ==
    UNION {{Call(Model(<<HardConv, Dense>>, seed, classes, rejects), HardBatch, <<>>,
                 cls, FALSE, None) :
               cls \in SeqsUpTo(0 .. classes, MaxIdx)} :
           seed \in 0 .. MaxSeed, classes \in 2 .. MaxC, rejects \in BOOLEAN}

\* feature maps of every shape; no class index, or one valid index per image
ShapeCalls ==
    {Call(Model(<<s, Dense>>, seed, 2, FALSE), b, <<>>,
          [k \in 1 .. (IF empty THEN 0 ELSE b) |-> 0], FALSE, None) :
        s \in ConvShapes, b \in 1 .. MaxB, empty \in BOOLEAN, seed \in 0 .. MaxSeed}

\* batch mode: one-hot label rows
LabelCalls ==
    UNION {{Call(Model(<<HardConv, Dense>>, 0, classes, FALSE), Len(cols),
                 [k \in 1 .. Len(cols) |-> OneHot(cols[k], classes)], <<>>, TRUE, None) :
               cols \in SeqsUpTo(0 .. classes - 1, MaxRows) \ {<<>>}} :
           classes \in 2 .. MaxLabelClasses}

Calls == SelectorCalls \cup ClassCalls \cup ShapeCalls \cup LabelCalls

Init ==
    /\ call \in Calls
    /\ pc = "explain"
    /\ err = "none"
    /\ class_index = call.class_index
    /\ layer_name = call.layer_name
    /\ tape = "none"
    /\ tape_opens = 0
    /\ fwd_passes = 0
    /\ queries = <<>>
    /\ i = 0
    /\ conv_outputs = None
    /\ grads = <<>>
    /\ second_derivative = <<>>
    /\ third_derivative = <<>>
    /\ guided_grads = <<>>
    /\ alphas = <<>>
    /\ maps = <<>>
    /\ heatmaps = <<>>

\* ---------------------------------------------------- explain, lines 49-63
RECURSIVE Flatten(_)
\* ndarray.flatten of a 2D array given as a sequence of rows
Flatten(rows) == IF rows = <<>> THEN <<>> ELSE Head(rows) \o Flatten(Tail(rows))

RECURSIVE WhereFrom(_, _)
\* np.where(a == 1)[0] from 1-based position p on: the 0-based positions of the ones
WhereFrom(a, p) ==
    IF p > Len(a) THEN <<>>
    ELSE (IF a[p] = 1 THEN <<p - 1>> ELSE <<>>) \o WhereFrom(a, p + 1)

\* class_index as lines 57-59 derive it from the labels of the batch
DeriveClassIndex(labels) ==
    LET ones == WhereFrom(Flatten(labels), 1)
    IN  [k \in 1 .. Len(ones) |-> ones[k] - ((k - 1) * LabelStride)]

\* lines 49-61: fetch the batch; in batch mode derive class_index from its labels
GetBatch ==
    /\ pc = "explain"
    /\ class_index' = IF call.batch_mode THEN DeriveClassIndex(call.labels)
                      ELSE call.class_index
    /\ pc' = "infer"
    /\ UNCHANGED <<call, err, layer_name>>
    /\ UNCHANGED extractor_vars
    /\ UNCHANGED composer_vars

RECURSIVE ScanReversed(_, _)
\* lines 98-105 from position k down
ScanReversed(layers, k) ==
    IF k = 0 THEN [err |-> "ValueError", name |-> None]
    ELSE IF Len(layers[k].output_shape) = 4
         THEN [err |-> "none", name |-> layers[k].name]
         ELSE ScanReversed(layers, k - 1)

RECURSIVE ScanForward(_, _)
\* faulty variant: the scan run front to back
ScanForward(layers, k) ==
    IF k > Len(layers) THEN [err |-> "ValueError", name |-> None]
    ELSE IF Len(layers[k].output_shape) = 4
         THEN [err |-> "none", name |-> layers[k].name]
         ELSE ScanForward(layers, k + 1)

infer_first_4d_layer(model) == ScanForward(model.layers, 1)

\* faulty variant: falls back to the last layer when no layer is 4D
infer_or_last_layer(model) ==
    LET r == ScanReversed(model.layers, Len(model.layers))
    IN  IF r.err = "none" \/ model.layers = <<>> THEN r
        ELSE [err |-> "none", name |-> model.layers[Len(model.layers)].name]

infer_grad_cam_target_layer(model) == ScanReversed(model.layers, Len(model.layers))

\* lines 62-63
InferLayer ==
    /\ pc = "infer"
    /\ LET r == IF layer_name = None THEN infer_grad_cam_target_layer(call.model)
                ELSE [err |-> "none", name |-> layer_name]
       IN  /\ layer_name' = r.name
           /\ err' = r.err
           /\ pc' = IF r.err = "none" THEN "grad_model" ELSE "raised"
    /\ UNCHANGED <<call, class_index>>
    /\ UNCHANGED extractor_vars
    /\ UNCHANGED composer_vars

\* ------------------------------- get_gradients_and_filters, lines 109-150
HasLayer(model, name) == \E k \in 1 .. Len(model.layers) : model.layers[k].name = name

\* model.get_layer(name).output_shape with the batch dimension filled in
LayerOutputShape(model, name, batch) ==
    LET k == CHOOSE n \in 1 .. Len(model.layers) : model.layers[n].name = name
    IN  <<batch>> \o Tail(model.layers[k].output_shape)

\* lines 122-124: get_layer raises ValueError when no layer has that name
BuildGradModel ==
    /\ pc = "grad_model"
    /\ IF HasLayer(call.model, layer_name)
       THEN pc' = "tape_enter" /\ err' = err
       ELSE pc' = "raised" /\ err' = "ValueError"
    /\ UNCHANGED <<call, class_index, layer_name>>
    /\ UNCHANGED extractor_vars
    /\ UNCHANGED composer_vars

\* line 125: with tf.GradientTape(persistent=True) as tape
TapeEnter ==
    /\ pc = "tape_enter"
    /\ tape' = "recording"
    /\ tape_opens' = tape_opens + 1
    /\ pc' = "forward"
    /\ UNCHANGED <<call, err, class_index, layer_name, fwd_passes, queries, i,
                   conv_outputs, grads, second_derivative, third_derivative,
                   guided_grads>>
    /\ UNCHANGED composer_vars

\* faulty variant: the exception leaves the function without __exit__
RaiseSkippingExit == "raised"

\* where an exception raised inside the with block goes: the block's __exit__
RaiseInWith == "tape_exit"

\* line 132: the next iteration, or the end of the with block
LoopTo(n) == IF n < Len(class_index) THEN "grad1" ELSE "tape_exit"

\* lines 126-131: the one forward pass, recorded by the tape
Forward ==
    /\ pc = "forward"
    /\ IF call.model.rejects
       THEN /\ err' = "InvalidArgumentError"
            /\ pc' = RaiseInWith
            /\ UNCHANGED <<fwd_passes, conv_outputs>>
       ELSE /\ LET s == LayerOutputShape(call.model, layer_name, call.images)
               IN  conv_outputs' =
                       [shape |-> s,
                        val |-> [x \in Cells(s) |-> ForwardValue(call.model.seed, s, x)]]
            /\ fwd_passes' = fwd_passes + 1
            /\ err' = err
            /\ pc' = LoopTo(0)
    /\ i' = 0
    /\ grads' = <<>>
    /\ second_derivative' = <<>>
    /\ third_derivative' = <<>>
    /\ guided_grads' = <<>>
    /\ UNCHANGED <<call, class_index, layer_name, tape, tape_opens, queries>>
    /\ UNCHANGED composer_vars

\* predictions[:, c]: Python indexing of the class axis
ValidIndex(c, classes) == -classes <= c /\ c < classes
PyIndex(c, classes) == IF c < 0 THEN c + classes ELSE c

\* line 133: loss = predictions[:, class_index[i]]
Loss == [order |-> 0, cls |-> PyIndex(class_index[i + 1], call.model.classes)]

\* tape.gradient(target, conv_outputs): the derivative of target, one order up
tape_gradient(target) ==
    [order |-> target.order + 1,
     cls |-> target.cls,
     shape |-> conv_outputs.shape,
     val |-> [x \in Cells(conv_outputs.shape) |->
                 DerivativeValue(call.model.seed, target.order + 1, target.cls,
                                 conv_outputs.shape, x)]]

\* the record of one tape.gradient call
Query(target) ==
    [target |-> [order |-> target.order, cls |-> target.cls], i |-> i,
     tape |-> tape, fwd |-> fwd_passes]

\* lines 133-134
Gradient1 ==
    /\ pc = "grad1"
    /\ IF ValidIndex(class_index[i + 1], call.model.classes)
       THEN /\ queries' = Append(queries, Query(Loss))
            /\ grads' = Append(grads, tape_gradient(Loss))
            /\ pc' = "grad2"
            /\ err' = err
       ELSE /\ err' = "ValueError"
            /\ pc' = RaiseInWith
            /\ UNCHANGED <<queries, grads>>
    /\ UNCHANGED <<call, class_index, layer_name, tape, tape_opens, fwd_passes, i,
                   conv_outputs, second_derivative, third_derivative, guided_grads>>
    /\ UNCHANGED composer_vars

SecondTarget == grads[i + 1]

\* line 135
Gradient2 ==
    /\ pc = "grad2"
    /\ queries' = Append(queries, Query(SecondTarget))
    /\ second_derivative' = Append(second_derivative, tape_gradient(SecondTarget))
    /\ pc' = "grad3"
    /\ UNCHANGED <<call, err, class_index, layer_name, tape, tape_opens, fwd_passes, i,
                   conv_outputs, grads, third_derivative, guided_grads>>
    /\ UNCHANGED composer_vars

\* faulty variant: the third query differentiates the first derivative again
ThirdTargetFirstOrder == grads[i + 1]

ThirdTarget == second_derivative[i + 1]

\* line 136
Gradient3 ==
    /\ pc = "grad3"
    /\ queries' = Append(queries, Query(ThirdTarget))
    /\ third_derivative' = Append(third_derivative, tape_gradient(ThirdTarget))
    /\ pc' = "guided"
    /\ UNCHANGED <<call, err, class_index, layer_name, tape, tape_opens, fwd_passes, i,
                   conv_outputs, grads, second_derivative, guided_grads>>
    /\ UNCHANGED composer_vars

\* tf.cast(x > 0, "float32")
CastPositive(x) == IF x > 0 THEN 1 ELSE 0

\* faulty variant: the gate on the sign of the gradient is missing
GuidedValueUngated(out, g) == CastPositive(out) * g

\* line 138 at one cell
GuidedValue(out, g) == CastPositive(out) * CastPositive(g) * g

\* lines 137-139, then the next iteration
Guided ==
    /\ pc = "guided"
    /\ guided_grads' =
           Append(guided_grads,
                  [shape |-> conv_outputs.shape,
                   val |-> [x \in Cells(conv_outputs.shape) |->
                               GuidedValue(conv_outputs.val[x], grads[i + 1].val[x])]])
    /\ i' = i + 1
    /\ pc' = LoopTo(i + 1)
    /\ UNCHANGED <<call, err, class_index, layer_name, tape, tape_opens, fwd_passes,
                   queries, conv_outputs, grads, second_derivative, third_derivative>>
    /\ UNCHANGED composer_vars

\* the end of the with block, reached normally or by an exception
TapeExit ==
    /\ pc = "tape_exit"
    /\ tape' = "exited"
    /\ pc' = IF err = "none" THEN "return" ELSE "raised"
    /\ UNCHANGED <<call, err, class_index, layer_name, tape_opens, fwd_passes, queries, i,
                   conv_outputs, grads, second_derivative, third_derivative,
                   guided_grads>>
    /\ UNCHANGED composer_vars

\* line 150 and the assignment of line 65
ReturnGradients ==
    /\ pc = "return"
    /\ pc' = "compose"
    /\ UNCHANGED <<call, err, class_index, layer_name>>
    /\ UNCHANGED extractor_vars
    /\ UNCHANGED composer_vars

\* --------------------------------- generate_ponderated_output, lines 153-224
Min(a, b) == IF a < b THEN a ELSE b

\* line 171 on a 4D tensor: tf.reduce_sum(outputs, axis=(1,2))
ReduceSumSpatial(t) ==
    LET s == <<t.shape[1], t.shape[4]>>
        HW == (0 .. t.shape[2] - 1) \X (0 .. t.shape[3] - 1)
    IN  [shape |-> s,
         val |-> [x \in Cells(s) |->
                     ISum([y \in HW |-> t.val[<<x[1], y[1], y[2], x[2]>>]], HW)]]

\* reshape keeps the row-major order of the elements
Reshape(t, s) ==
    [shape |-> s, val |-> [x \in Cells(s) |-> t.val[Unflatten(t.shape, FlatIndex(s, x))]]]

GreyShape == <<HardBatch, HardH * HardW, HardNf>>
GlobalSumShape == <<HardBatch, HardH, HardW, HardNf>>

\* lines 182-185: grey[m,k,j] = sum1[m,j] * grey[m,k,j]
ScaleGrey(grey, sum1) ==
    [shape |-> grey.shape,
     val |-> [x \in Cells(grey.shape) |-> sum1.val[<<x[1], x[3]>>] * grey.val[x]]]

\* faulty variant: the zero denominator is left in place
DenominatorUnguarded(d) == d

\* line 191 at one cell: np.where(alpha_denom != 0.0, alpha_denom, 1)
GuardDenominator(d) == IF d # 0 THEN d ELSE 1

\* lines 178-192 for one class: [err, alpha]
Alpha(sum1, second, third) ==
    IF NumElements(third.shape) # NumElements(GreyShape)
    THEN [err |-> "InvalidArgumentError", alpha |-> None]
    ELSE IF sum1.shape[1] < HardBatch \/ sum1.shape[2] < HardNf
    THEN [err |-> "IndexError", alpha |-> None]
    ELSE LET grey == ScaleGrey(Reshape(third, GreyShape), sum1)
             global_sum == Reshape(grey, GlobalSumShape)
         IN  IF ~BroadcastOk(second.shape, global_sum.shape)
             THEN [err |-> "InvalidArgumentError", alpha |-> None]
             ELSE LET s == BroadcastShape(second.shape, global_sum.shape)
                      alpha_num(x) == second.val[BroadcastIdx(second.shape, x)]
                      alpha_denom(x) ==
                          GuardDenominator(
                              alpha_num(x) * 2
                                  + global_sum.val[BroadcastIdx(global_sum.shape, x)])
                  IN  [err |-> "none",
                       alpha |-> [shape |-> s,
                                  val |-> [x \in Cells(s) |->
                                              Frac(alpha_num(x), alpha_denom(x))]]]

\* lines 203-224: [err, cam]
ponderate_output(output, alpha, grad) ==
    IF ~BroadcastOk(alpha.shape, grad.shape)
    THEN [err |-> "InvalidArgumentError", cam |-> None]
    ELSE LET p == BroadcastShape(alpha.shape, grad.shape)
             HW == (0 .. p[1] - 1) \X (0 .. p[2] - 1)
             prod(x) == FMul(alpha.val[BroadcastIdx(alpha.shape, x)],
                             <<grad.val[BroadcastIdx(grad.shape, x)], 1>>)
             weights == [c \in 0 .. p[3] - 1 |->
                            FMul(FSum([y \in HW |-> prod(<<y[1], y[2], c>>)], HW),
                                 <<1, p[1] * p[2]>>)]
             wshape == <<1, 1, p[3]>>
         IN  IF ~BroadcastOk(wshape, output.shape)
             THEN [err |-> "InvalidArgumentError", cam |-> None]
             ELSE LET q == BroadcastShape(wshape, output.shape)
                      C == 0 .. q[3] - 1
                      term(x) == FMul(weights[BroadcastIdx(wshape, x)[3]],
                                      <<output.val[BroadcastIdx(output.shape, x)], 1>>)
                  IN  [err |-> "none",
                       cam |-> [shape |-> <<q[1], q[2]>>,
                                val |-> [y \in Cells(<<q[1], q[2]>>) |->
                                            FSum([c \in C |-> term(<<y[1], y[2], c>>)],
                                                 C)]]]

\* lines 194-197: the j the zip loop stops at for entry n (1-based) of the list
ImageMatched(n, cls) == cls[n]

RECURSIVE ComposeFrom(_, _, _, _, _, _, _, _)
\* lines 177-197 from entry n (1-based) of grads on: [err, alphas, maps]
ComposeFrom(n, sum1, outputs, seconds, thirds, gg, cls, acc) ==
    IF n > Len(gg) THEN acc
    ELSE LET a == Alpha(sum1, seconds[n], thirds[n])
         IN  IF a.err # "none" THEN [err |-> a.err, alphas |-> <<>>, maps |-> <<>>]
             ELSE LET zipped == Min(Min(outputs.shape[1], a.alpha.shape[1]),
                                    gg[n].shape[1])
                      j == ImageMatched(n, cls)
                  IN  IF 0 <= j /\ j < zipped
                      THEN LET r == ponderate_output(Slice(outputs, j),
                                                     Slice(a.alpha, j), Slice(gg[n], j))
                           IN  IF r.err # "none"
                               THEN [err |-> r.err, alphas |-> <<>>, maps |-> <<>>]
                               ELSE ComposeFrom(n + 1, sum1, outputs, seconds, thirds,
                                                gg, cls,
                                                [err |-> "none",
                                                 alphas |-> Append(acc.alphas, a.alpha),
                                                 maps |-> Append(acc.maps, r.cam)])
                      ELSE ComposeFrom(n + 1, sum1, outputs, seconds, thirds, gg, cls,
                                       [err |-> "none",
                                        alphas |-> Append(acc.alphas, a.alpha),
                                        maps |-> acc.maps])

\* lines 171-200: [err, alphas, maps]
generate_ponderated_output(outputs, seconds, thirds, gg, cls) ==
    IF Len(outputs.shape) < 3
    THEN [err |-> "InvalidArgumentError", alphas |-> <<>>, maps |-> <<>>]
    ELSE ComposeFrom(1, ReduceSumSpatial(outputs), outputs, seconds, thirds, gg, cls,
                     [err |-> "none", alphas |-> <<>>, maps |-> <<>>])

\* line 69
Compose ==
    /\ pc = "compose"
    /\ LET r == generate_ponderated_output(conv_outputs, second_derivative,
                                           third_derivative, guided_grads, class_index)
       IN  /\ err' = r.err
           /\ alphas' = r.alphas
           /\ maps' = r.maps
           /\ pc' = IF r.err = "none" THEN "heatmaps" ELSE "raised"
    /\ UNCHANGED <<call, class_index, layer_name, heatmaps>>
    /\ UNCHANGED extractor_vars

\* lines 70-84: cam k is drawn over image k
Heatmaps ==
    /\ pc = "heatmaps"
    /\ heatmaps' = [k \in 1 .. Min(Len(maps), call.images) |->
                       [cam |-> maps[k], image |-> k - 1]]
    /\ pc' = "done"
    /\ UNCHANGED <<call, err, class_index, layer_name, alphas, maps>>
    /\ UNCHANGED extractor_vars

Next ==
    \/ GetBatch
    \/ InferLayer
    \/ BuildGradModel
    \/ TapeEnter
    \/ Forward
    \/ Gradient1
    \/ Gradient2
    \/ Gradient3
    \/ Guided
    \/ TapeExit
    \/ ReturnGradients
    \/ Compose
    \/ Heatmaps

Spec == Init /\ [][Next]_vars

\* ------------------------------------------------------------- properties
Is4D(layer) == Len(layer.output_shape) = 4
ModelLayers == call.model.layers
FourD == {k \in 1 .. Len(ModelLayers) : Is4D(ModelLayers[k])}
Inferred == call.layer_name = None /\ pc \notin {"explain", "infer"}

\* C1: on a model with at least one layer of 4D output, the inferred target
\* layer is the last 4D layer of the layer list, never an earlier 4D layer and
\* never a layer that is not 4D.
C1_LastFourDLayer ==
    (Inferred /\ FourD # {}) =>
        \E k \in FourD :
            /\ layer_name = ModelLayers[k].name
            /\ \A j \in FourD : j <= k

C1_Witness ==
    /\ Inferred
    /\ pc = "grad_model"
    /\ Cardinality(FourD) >= 2
    /\ ~Is4D(ModelLayers[Len(ModelLayers)])
    /\ \E k \in FourD : layer_name = ModelLayers[k].name /\ \A j \in FourD : j <= k

NoPassRun == fwd_passes = 0 /\ queries = <<>> /\ tape_opens = 0 /\ conv_outputs = None

\* C2 (as stated): on a model without a 4D layer the selector fails with
\* NoConvolutionalLayerError, returns no name, and explain aborts before any
\* forward or backward pass.
C2_NoConvolutionalLayerError ==
    (Inferred /\ FourD = {}) =>
        /\ pc = "raised"
        /\ err = "NoConvolutionalLayerError"
        /\ layer_name = None
        /\ NoPassRun

\* C2 (amended): on a model without a 4D layer, the empty model included, the
\* selector raises ValueError, returns no name, and explain aborts before any
\* forward or backward pass.
C2_NoFourDLayerRaisesValueError ==
    (Inferred /\ FourD = {}) =>
        /\ pc = "raised"
        /\ err = "ValueError"
        /\ layer_name = None
        /\ NoPassRun

C2_Witness ==
    /\ Inferred
    /\ FourD = {}
    /\ Len(ModelLayers) >= 2
    /\ pc = "raised"
    /\ err = "ValueError"

\* get_gradients_and_filters returned, so generate_ponderated_output was called
ComposerRan ==
    \/ pc \in {"heatmaps", "done"}
    \/ /\ pc = "raised"
       /\ fwd_passes = 1
       /\ Len(guided_grads) = Len(class_index)
       /\ tape = "exited"

ValidClasses == \A k \in 1 .. Len(class_index) :
                    0 <= class_index[k] /\ class_index[k] < call.model.classes

\* C3: for a batch of B images and B valid class indices the composer returns
\* exactly B CAMs, each of the target layer's (height, width).
C3_OneCamPerClassIndex ==
    (ComposerRan /\ Len(class_index) = call.images /\ ValidClasses) =>
        /\ pc \in {"heatmaps", "done"}
        /\ Len(maps) = call.images
        /\ \A k \in 1 .. Len(maps) :
               maps[k].shape = <<conv_outputs.shape[2], conv_outputs.shape[3]>>

\* sum over height and width of the feature map of image b, channel c
SpatialSum(b, c) ==
    LET HW == (0 .. conv_outputs.shape[2] - 1) \X (0 .. conv_outputs.shape[3] - 1)
    IN  ISum([y \in HW |-> conv_outputs.val[<<b, y[1], y[2], c>>]], HW)

AlphaDenominator(n, x) ==
    2 * second_derivative[n].val[x] + SpatialSum(x[1], x[4]) * third_derivative[n].val[x]

\* C4: at every cell of every class, alpha is grad2 where 2*grad2 + global_sum
\* is zero and grad2 / (2*grad2 + global_sum) elsewhere, global_sum being the
\* cell's third derivative times the spatial sum of its image and channel.
C4_AlphaFormula ==
    \A n \in 1 .. Len(alphas) :
        /\ alphas[n].shape = conv_outputs.shape
        /\ \A x \in Cells(conv_outputs.shape) :
               alphas[n].val[x] =
                   IF AlphaDenominator(n, x) = 0
                   THEN <<second_derivative[n].val[x], 1>>
                   ELSE Frac(second_derivative[n].val[x], AlphaDenominator(n, x))

C4_Witness ==
    /\ pc = "done"
    /\ \E n \in 1 .. Len(alphas) :
           /\ \E x \in Cells(conv_outputs.shape) :
                  /\ AlphaDenominator(n, x) = 0
                  /\ second_derivative[n].val[x] # 0
                  /\ alphas[n].val[x] = <<second_derivative[n].val[x], 1>>
           /\ \E x \in Cells(conv_outputs.shape) :
                  /\ AlphaDenominator(n, x) \notin {0, 1, -1}
                  /\ second_derivative[n].val[x] # 0
                  /\ third_derivative[n].val[x] # 0
                  /\ SpatialSum(x[1], x[4]) \notin {0, 1}

Mismatch == conv_outputs.shape # GlobalSumShape

\* C5 (as stated): a feature map whose layout is not the one the composer
\* expects is reported as a ShapeMismatchError and yields no CAMs.
C5_ShapeMismatchError ==
    (ComposerRan /\ Mismatch) =>
        /\ pc = "raised"
        /\ err = "ShapeMismatchError"
        /\ maps = <<>>

\* C5 (amended): a feature map whose layout is not the one the composer expects
\* never yields a CAM; when at least one class index is processed the call
\* fails with the reshape, index or broadcast error of the tensor library
\* (InvalidArgumentError or IndexError), not a named ShapeMismatchError.
C5_MismatchRaisesLowLevelError ==
    (ComposerRan /\ Mismatch) =>
        /\ maps = <<>>
        /\ heatmaps = <<>>
        /\ Len(class_index) > 0 =>
               /\ pc = "raised"
               /\ err \in {"InvalidArgumentError", "IndexError"}

C5_Witness ==
    /\ ComposerRan
    /\ Mismatch
    /\ Len(conv_outputs.shape) = 4
    /\ NumElements(conv_outputs.shape) = NumElements(GreyShape)
    /\ conv_outputs.shape[1] >= HardBatch
    /\ conv_outputs.shape[4] >= HardNf
    /\ pc = "raised"
    /\ err = "InvalidArgumentError"
    /\ maps = <<>>

\* the image C6 names for entry n (1-based) of the list: the one at its position
ImageAtListPosition(n, cls) == n - 1

\* C6: the CAM of entry k of class_index is computed from the image at batch
\* position k (its feature map, its alpha slice, its guided gradient slice), and
\* the CAMs come in the order of the list.
C6_ImageByPosition ==
    pc = "done" =>
        /\ Len(maps) = Len(class_index)
        /\ \A k \in 1 .. Len(maps) :
               LET j == ImageAtListPosition(k, class_index)
               IN  /\ j < conv_outputs.shape[1]
                   /\ maps[k] = ponderate_output(Slice(conv_outputs, j),
                                                 Slice(alphas[k], j),
                                                 Slice(guided_grads[k], j)).cam

\* C7: a guided gradient is 0 where the feature map or the first derivative is
\* <= 0 and the first derivative elsewhere; it is never negative.
C7_GuidedGate ==
    \A n \in 1 .. Len(guided_grads) :
        \A x \in Cells(conv_outputs.shape) :
            /\ guided_grads[n].val[x] =
                   IF conv_outputs.val[x] <= 0 \/ grads[n].val[x] <= 0
                   THEN 0 ELSE grads[n].val[x]
            /\ guided_grads[n].val[x] >= 0

C7_Witness ==
    \E n \in 1 .. Len(guided_grads) :
        /\ \E x \in Cells(conv_outputs.shape) :
               conv_outputs.val[x] <= 0 /\ grads[n].val[x] > 0
                   /\ guided_grads[n].val[x] = 0
        /\ \E x \in Cells(conv_outputs.shape) :
               conv_outputs.val[x] > 0 /\ grads[n].val[x] < 0
                   /\ guided_grads[n].val[x] = 0
        /\ \E x \in Cells(conv_outputs.shape) :
               conv_outputs.val[x] > 0 /\ grads[n].val[x] > 0
                   /\ guided_grads[n].val[x] = grads[n].val[x]

\* C8: one forward pass per call; the derivative queries of each class are
\* issued first, second, third, each on the result of the one before for that
\* class, on the open tape that recorded the forward pass.
C8_QueryOrder ==
    /\ fwd_passes <= 1
    /\ pc \in {"return", "compose", "heatmaps", "done"} => fwd_passes = 1
    /\ \A p \in 1 .. Len(queries) :
           LET q == queries[p]
           IN  /\ q.tape = "recording"
               /\ q.fwd = 1
               /\ q.i = (p - 1) \div 3
               /\ q.target.order = (p - 1) % 3
               /\ q.target.cls = PyIndex(class_index[q.i + 1], call.model.classes)
               /\ q.target.order > 0 =>
                      /\ queries[p - 1].i = q.i
                      /\ queries[p - 1].target.order + 1 = q.target.order
                      /\ queries[p - 1].target.cls = q.target.cls
    /\ \A n \in 1 .. Len(third_derivative) :
           /\ grads[n].order = 1
           /\ second_derivative[n].order = 2
           /\ third_derivative[n].order = 3

C8_Witness ==
    /\ pc = "return"
    /\ Len(queries) = 3 * Len(class_index)
    /\ Len(class_index) >= 2
    /\ class_index[1] # class_index[2]

Column(row) == CHOOSE c \in 0 .. Len(row) - 1 : row[c + 1] = 1

\* C10: in batch mode the derived class_index has one entry per image, entry k
\* being the column of the 1 in label row k, a valid class index.
C10_DerivedIsColumn ==
    (call.batch_mode /\ pc # "explain") =>
        /\ Len(class_index) = Len(call.labels)
        /\ \A k \in 1 .. Len(class_index) :
               /\ class_index[k] = Column(call.labels[k])
               /\ 0 <= class_index[k]
               /\ class_index[k] < call.model.classes

====
